---- MODULE Spec2Model ----
(***************************************************************************)
(* Auto Net Namer (src/auto_net_namer.py): a KiCad action plugin that      *)
(* groups the copper items without a net name by physical contact and      *)
(* gives every group with a conductor a fresh net AUTO_n.                   *)
(*                                                                         *)
(* The board is a list of items (tracks, zones, pads, identified by their  *)
(* index), the list of net records (names; record 1 is KiCad's unconnected *)
(* net with the empty name) and each item's net reference.  One pass of    *)
(* Run is the sequence  RunStart, (Seed, BfsStep*, EmitGroup)*, Return,    *)
(* ResolveGroup*, Report;  every action is one iteration of a loop of the  *)
(* source.                                                                 *)
(***************************************************************************)
EXTENDS Integers, Sequences, FiniteSets, TLC

\* ------------------------------------------------------------------ bounds
MaxItems == 3
MaxPads == 2
MaxPoint == 2
MaxRuns == 2

Points == 1..MaxPoint
PadNumbers == {"1", "0", "MP"}
\* the net records of the board before the first pass
InitialNetLists ==
    { <<"">>,
      <<"", "AUTO_2">>,
      <<"", "GND", "AUTO_1">> }
\* an item starts without a net or on the last net record of the board (the
\* unconnected net, of the empty name, when the board has no other)
InitialRefs(netlist) == {0, Len(netlist)}

\* ------------------------------------------------------------------- state
VARIABLES
    items,              \* the board's tracks, zones and pads, in enumeration order
    itemNet,            \* item -> net reference (NoNet, or an index of nets)
    nets,               \* the board's net records: their names, by net code
    pc,                 \* where Run is: "idle", "seed", "bfs", "resolve"
    runs,               \* number of completed passes
    all_items,          \* find_connected_items: the collected unnamed items
    visited,            \* find_connected_items: ids of the visited items
    connected_groups,   \* find_connected_items: the groups found so far
    seed,               \* position of `for item in all_items`
    queue,              \* the BFS queue
    connected_group,    \* the group under construction
    used_net_names,     \* Run: the used names
    counter,            \* Run: the allocation counter
    named_connections,  \* Run: the count of named groups
    group_index,        \* position of `for connection_group in connected_items`
    reported,           \* the number shown by the last message box
    nets0,              \* history: the net records when the pass started
    itemNet0,           \* history: the net references when the pass started
    allocated           \* history: <<group index, name>> of each group named in the pass

vars == << items, itemNet, nets, pc, runs, all_items, visited, connected_groups,
           seed, queue, connected_group, used_net_names, counter,
           named_connections, group_index, reported, nets0, itemNet0, allocated >>

NoNet == 0
net_prefix == "AUTO_"

\* ------------------------------------------------------- the board store
Range(s) == { s[i] : i \in 1..Len(s) }

TrackSet == [kind : {"track"}, start : Points, end : Points]
ZoneSet == [kind : {"zone"}, region : SUBSET Points]
PadSet == [kind : {"pad"}, pos : Points, hit : SUBSET Points, number : PadNumbers]

IsTrack(item) == items[item].kind = "track"
IsZone(item) == items[item].kind = "zone"
IsPad(item) == items[item].kind = "pad"

\* board.FindNet(name): the net record of that name, or None
FindNet(netlist, name) ==
    IF \E n \in 1..Len(netlist) : netlist[n] = name
    THEN CHOOSE n \in 1..Len(netlist) : netlist[n] = name
    ELSE NoNet

\* pad.HitTest(point), zone.HitTest(point): the geometry service
PadHitTest(pad, point) == point \in pad.hit
ZoneHitTest(zone, point) == point \in zone.region

\* `not net or not net.GetNetname()`
IsUnnamed(netlist, ref) == ref = NoNet \/ netlist[ref] = ""

\* ------------------------------------------------- find_connected_items
get_item_id(item) == ToString(item)

are_physically_connected(item1, item2) ==
    LET a == items[item1]
        b == items[item2]
    IN  IF a.kind = "pad" \/ b.kind = "pad"
        THEN LET pad == IF a.kind = "pad" THEN a ELSE b
                 other == IF a.kind = "pad" THEN b ELSE a
             IN  IF other.kind = "track"
                 THEN PadHitTest(pad, other.start) \/ PadHitTest(pad, other.end)
                 ELSE IF other.kind = "zone"
                      THEN ZoneHitTest(other, pad.pos)
                      ELSE FALSE
        ELSE IF a.kind = "track" /\ b.kind = "track"
        THEN \/ a.start = b.start
             \/ a.start = b.end
             \/ a.end = b.start
             \/ a.end = b.end
        ELSE IF a.kind = "zone" \/ b.kind = "zone"
        THEN LET zone == IF a.kind = "zone" THEN a ELSE b
                 other == IF a.kind = "zone" THEN b ELSE a
             IN  IF other.kind = "track"
                 THEN ZoneHitTest(zone, other.start) \/ ZoneHitTest(zone, other.end)
                 ELSE IF other.kind = "pad"
                      THEN ZoneHitTest(zone, other.pos)
                      ELSE FALSE
        ELSE FALSE

\* the three collection loops: tracks, then zones, then pads
CollectUnnamed ==
    LET ids == [i \in 1..Len(items) |-> i]
        UnnamedTrack(i) == IsTrack(i) /\ IsUnnamed(nets, itemNet[i])
        UnnamedZone(i) == IsZone(i) /\ IsUnnamed(nets, itemNet[i])
        UnnamedPad(i) == IsPad(i) /\ IsUnnamed(nets, itemNet[i])
    IN  SelectSeq(ids, UnnamedTrack) \o SelectSeq(ids, UnnamedZone)
            \o SelectSeq(ids, UnnamedPad)

\* Neighbours, scanning only the items after current in all_items
NeighboursLaterOnly(current, seen) ==
    LET Later(other) ==
            /\ \E a, b \in 1..Len(all_items) :
                  a < b /\ all_items[a] = current /\ all_items[b] = other
            /\ get_item_id(other) \notin seen
            /\ are_physically_connected(current, other)
    IN  SelectSeq(all_items, Later)

\* `for other in all_items`: the not yet visited items that touch current
Neighbours(current, seen) ==
    LET Touching(other) ==
            /\ get_item_id(other) \notin seen
            /\ are_physically_connected(current, other)
    IN  SelectSeq(all_items, Touching)

\* -------------------------------------------------------------------- Run
NetName(n) == net_prefix \o ToString(n)

\* NextFree without the test against the used names
NextFreeNoCheck(c, used) == c

\* NextFree advancing the counter twice after a collision
RECURSIVE NextFreeSkipsTwo(_, _)
NextFreeSkipsTwo(c, used) ==
    IF NetName(c) \notin used THEN c ELSE NextFreeSkipsTwo(c + 2, used)

\* `while True: ... counter += 1`: the first counter value whose name is unused
RECURSIVE NextFree(_, _)
NextFree(c, used) ==
    IF NetName(c) \notin used THEN c ELSE NextFree(c + 1, used)

\* get_existing_net: the first named net among the items' nets, or None
get_existing_net(group) ==
    IF \E k \in 1..Len(group) : ~IsUnnamed(nets, itemNet[group[k]])
    THEN itemNet[group[CHOOSE k \in 1..Len(group) :
                    /\ ~IsUnnamed(nets, itemNet[group[k]])
                    /\ \A j \in 1..(k - 1) : IsUnnamed(nets, itemNet[group[j]])]]
    ELSE NoNet

\* group_has_conductors without the conductor test: any non-empty group passes
group_has_items(group) == Len(group) > 0

group_has_conductors(group) ==
    \E k \in 1..Len(group) : IsTrack(group[k]) \/ IsZone(group[k])

\* IsGroundPad knowing the number "MP" only
IsGroundPadMPOnly(item) == items[item].number = "MP"

\* `item.GetNumber() in ["0", "MP"]`
IsGroundPad(item) == items[item].number \in {"0", "MP"}

\* EnsureNet without the lookup: a record is created every time
EnsureNetAlwaysCreates(netlist, name) ==
    [nets |-> Append(netlist, name), ref |-> Len(netlist) + 1]

\* the net record of that name, created when FindNet finds none
EnsureNet(netlist, name) ==
    LET found == FindNet(netlist, name)
    IN  IF found = NoNet
        THEN [nets |-> Append(netlist, name), ref |-> Len(netlist) + 1]
        ELSE [nets |-> netlist, ref |-> found]

\* AssignItem setting the net of pads only
AssignItemPadsOnly(item, new_net, board) ==
    IF IsPad(item)
    THEN IF IsGroundPad(item)
         THEN LET gnd == EnsureNet(board.nets, "GND")
              IN  [nets |-> gnd.nets,
                   itemNet |-> [board.itemNet EXCEPT ![item] = gnd.ref]]
         ELSE [board EXCEPT !.itemNet[item] = new_net]
    ELSE board

\* AssignItem setting the net of tracks and zones only
AssignItemNoPads(item, new_net, board) ==
    IF IsPad(item)
    THEN board
    ELSE [board EXCEPT !.itemNet[item] = new_net]

\* the body of `for item in connection_group`
AssignItem(item, new_net, board) ==
    IF IsPad(item)
    THEN IF IsGroundPad(item)
         THEN LET gnd == EnsureNet(board.nets, "GND")
              IN  [nets |-> gnd.nets,
                   itemNet |-> [board.itemNet EXCEPT ![item] = gnd.ref]]
         ELSE [board EXCEPT !.itemNet[item] = new_net]
    ELSE [board EXCEPT !.itemNet[item] = new_net]

RECURSIVE AssignGroup(_, _, _, _)
AssignGroup(group, k, new_net, board) ==
    IF k > Len(group)
    THEN board
    ELSE AssignGroup(group, k + 1, new_net, AssignItem(group[k], new_net, board))

\* ----------------------------------------------------------------- Init
Init ==
    /\ \E nt, nz \in 0..MaxItems, np \in 0..MaxPads :
         /\ nt + nz + np <= MaxItems
         /\ \E tracks \in [1..nt -> TrackSet], zones \in [1..nz -> ZoneSet],
               pads \in [1..np -> PadSet] :
              items = tracks \o zones \o pads
    /\ nets \in InitialNetLists
    /\ itemNet \in [1..Len(items) -> InitialRefs(nets)]
    /\ pc = "idle"
    /\ runs = 0
    /\ all_items = << >>
    /\ visited = {}
    /\ connected_groups = << >>
    /\ seed = 1
    /\ queue = << >>
    /\ connected_group = << >>
    /\ used_net_names = {}
    /\ counter = 1
    /\ named_connections = 0
    /\ group_index = 1
    /\ reported = 0
    /\ nets0 = nets
    /\ itemNet0 = itemNet
    /\ allocated = << >>

\* -------------------------------------------------------------- actions
\* Run is invoked: find_connected_items collects the unnamed items
RunStart ==
    /\ pc = "idle"
    /\ runs < MaxRuns
    /\ all_items' = CollectUnnamed
    /\ visited' = {}
    /\ connected_groups' = << >>
    /\ seed' = 1
    /\ queue' = << >>
    /\ connected_group' = << >>
    /\ pc' = "seed"
    /\ nets0' = nets
    /\ itemNet0' = itemNet
    /\ allocated' = << >>
    /\ UNCHANGED << items, itemNet, nets, runs, used_net_names, counter,
                    named_connections, group_index, reported >>

\* one iteration of `for item in all_items`, up to the BFS loop
Seed ==
    /\ pc = "seed"
    /\ seed <= Len(all_items)
    /\ IF get_item_id(all_items[seed]) \in visited
       THEN /\ seed' = seed + 1
            /\ UNCHANGED << pc, queue, connected_group >>
       ELSE /\ queue' = << all_items[seed] >>
            /\ connected_group' = << >>
            /\ pc' = "bfs"
            /\ UNCHANGED seed
    /\ UNCHANGED << items, itemNet, nets, runs, all_items, visited,
                    connected_groups, used_net_names, counter,
                    named_connections, group_index, reported, nets0,
                    itemNet0, allocated >>

\* BfsStep without the visited test on the popped item
BfsStepNoPopCheck ==
    /\ pc = "bfs"
    /\ queue # << >>
    /\ LET current == Head(queue)
           current_id == get_item_id(current)
       IN  /\ visited' = visited \cup {current_id}
           /\ connected_group' = Append(connected_group, current)
           /\ queue' = Tail(queue) \o Neighbours(current, visited \cup {current_id})
    /\ UNCHANGED << items, itemNet, nets, pc, runs, all_items, connected_groups,
                    seed, used_net_names, counter, named_connections,
                    group_index, reported, nets0, itemNet0, allocated >>

\* one iteration of `while queue`
BfsStep ==
    /\ pc = "bfs"
    /\ queue # << >>
    /\ LET current == Head(queue)
           current_id == get_item_id(current)
       IN  IF current_id \in visited
           THEN /\ queue' = Tail(queue)
                /\ UNCHANGED << visited, connected_group >>
           ELSE /\ visited' = visited \cup {current_id}
                /\ connected_group' = Append(connected_group, current)
                /\ queue' = Tail(queue) \o Neighbours(current, visited \cup {current_id})
    /\ UNCHANGED << items, itemNet, nets, pc, runs, all_items, connected_groups,
                    seed, used_net_names, counter, named_connections,
                    group_index, reported, nets0, itemNet0, allocated >>

\* the queue is empty: the group is emitted and the outer loop goes on
EmitGroup ==
    /\ pc = "bfs"
    /\ queue = << >>
    /\ connected_groups' = IF connected_group # << >>
                           THEN Append(connected_groups, connected_group)
                           ELSE connected_groups
    /\ seed' = seed + 1
    /\ pc' = "seed"
    /\ UNCHANGED << items, itemNet, nets, runs, all_items, visited, queue,
                    connected_group, used_net_names, counter,
                    named_connections, group_index, reported, nets0,
                    itemNet0, allocated >>

\* find_connected_items returns; Run collects the used names
Return ==
    /\ pc = "seed"
    /\ seed > Len(all_items)
    /\ used_net_names' = Range(nets) \ {""}
    /\ counter' = 1
    /\ named_connections' = 0
    /\ group_index' = 1
    /\ pc' = "resolve"
    /\ UNCHANGED << items, itemNet, nets, runs, all_items, visited,
                    connected_groups, seed, queue, connected_group, reported,
                    nets0, itemNet0, allocated >>

\* one iteration of `for connection_group in connected_items`
ResolveGroup ==
    /\ pc = "resolve"
    /\ group_index <= Len(connected_groups)
    /\ LET connection_group == connected_groups[group_index]
       IN  IF \/ connection_group = << >>
              \/ get_existing_net(connection_group) # NoNet
              \/ ~group_has_conductors(connection_group)
           THEN UNCHANGED << itemNet, nets, used_net_names, counter,
                             named_connections, allocated >>
           ELSE LET n == NextFree(counter, used_net_names)
                    new_name == NetName(n)
                    new_net == EnsureNet(nets, new_name)
                    board == AssignGroup(connection_group, 1, new_net.ref,
                                 [nets |-> new_net.nets, itemNet |-> itemNet])
                IN  /\ nets' = board.nets
                    /\ itemNet' = board.itemNet
                    /\ used_net_names' = used_net_names \cup {new_name}
                    /\ counter' = n + 1
                    /\ named_connections' = named_connections + 1
                    /\ allocated' = Append(allocated, << group_index, new_name >>)
    /\ group_index' = group_index + 1
    /\ UNCHANGED << items, pc, runs, all_items, visited, connected_groups,
                    seed, queue, connected_group, reported, nets0, itemNet0 >>

\* Report showing the number of groups instead of the number of named groups
ReportGroupCount ==
    /\ pc = "resolve"
    /\ group_index > Len(connected_groups)
    /\ reported' = Len(connected_groups)
    /\ runs' = runs + 1
    /\ pc' = "idle"
    /\ UNCHANGED << items, itemNet, nets, all_items, visited, connected_groups,
                    seed, queue, connected_group, used_net_names, counter,
                    named_connections, group_index, nets0, itemNet0, allocated >>

\* the display is refreshed and the count is shown
Report ==
    /\ pc = "resolve"
    /\ group_index > Len(connected_groups)
    /\ reported' = named_connections
    /\ runs' = runs + 1
    /\ pc' = "idle"
    /\ UNCHANGED << items, itemNet, nets, all_items, visited, connected_groups,
                    seed, queue, connected_group, used_net_names, counter,
                    named_connections, group_index, nets0, itemNet0, allocated >>

Next ==
    \/ RunStart
    \/ Seed
    \/ BfsStep
    \/ EmitGroup
    \/ Return
    \/ ResolveGroup
    \/ Report

Spec == Init /\ [][Next]_vars

TypeOK ==
    /\ pc \in {"idle", "seed", "bfs", "resolve"}
    /\ runs \in 0..MaxRuns
    /\ \A i \in 1..Len(items) : itemNet[i] \in 0..Len(nets)

\* ------------------------------------------------- notions of the claims
\* the items that had no net name when the pass started
Collected0 == { i \in 1..Len(items) : IsUnnamed(nets0, itemNet0[i]) }

\* find_connected_items of the current pass has returned
GroupsReady == pc = "resolve" \/ (pc = "idle" /\ runs > 0)

\* a pass has completed and no other has started
PassDone == pc = "idle" /\ runs > 0

GroupIndexes == 1..Len(connected_groups)
Members(g) == Range(connected_groups[g])
Places(i) == UNION { { << g, k >> : k \in { k \in 1..Len(connected_groups[g]) :
                                            connected_groups[g][k] = i } } :
                     g \in GroupIndexes }
GroupOf(i) == CHOOSE g \in GroupIndexes : i \in Members(g)
OnlyPads(g) == \A i \in Members(g) : items[i].kind = "pad"
GroundNumbered(i) == items[i].kind = "pad" /\ items[i].number \in {"0", "MP"}
NameOf(i) == IF itemNet[i] = 0 THEN "" ELSE nets[itemNet[i]]
AllocatedNames == { allocated[a][2] : a \in 1..Len(allocated) }

\* the items a chain of touching collected items links to the items of S
RECURSIVE Linked(_, _, _)
Linked(S, n, among) ==
    IF n = 0
    THEN S
    ELSE Linked(S \cup { j \in among :
                           \E i \in S : are_physically_connected(i, j) },
                n - 1, among)

\* the k-th smallest positive n such that AUTO_n was no net name before the pass
FreeNumbers(k) == { n \in 1..(Len(nets0) + k) : NetName(n) \notin Range(nets0) }
KthFree(k) ==
    CHOOSE n \in FreeNumbers(k) : Cardinality({ m \in FreeNumbers(k) : m <= n }) = k

\* ----------------------------------------------------------------- claims
\* C1: the groups returned by find_connected_items partition the collected
\* unnamed items: every item without a net name is at exactly one place of
\* exactly one group, no group is empty, and every member was collected.
C1_GroupsPartitionCollected ==
    GroupsReady =>
        /\ \A g \in GroupIndexes : connected_groups[g] # << >>
        /\ \A i \in Collected0 : Cardinality(Places(i)) = 1
        /\ \A g \in GroupIndexes : Members(g) \subseteq Collected0

\* C1 witness: two geometrically identical items are both kept, in one group
\* of three items.
C1_Witness ==
    /\ GroupsReady
    /\ \E i, j \in Collected0 :
         /\ i # j
         /\ items[i] = items[j]
         /\ GroupOf(i) = GroupOf(j)
         /\ Len(connected_groups[GroupOf(i)]) = 3

\* C2: two collected items are in the same group if and only if a chain of
\* collected items, each touching the next, links them.
C2_GroupsAreComponents ==
    GroupsReady =>
        LET collected == Collected0
        IN  \A i \in collected :
                LET component == Linked({i}, Cardinality(collected), collected)
                IN  \A j \in collected :
                        (\E g \in GroupIndexes : i \in Members(g) /\ j \in Members(g))
                            <=> j \in component

\* C2 witness: a pad and a track that do not touch are in one group with the
\* zone both touch.
C2_Witness ==
    /\ GroupsReady
    /\ \E p, t, z \in Collected0 :
         /\ items[p].kind = "pad" /\ items[t].kind = "track" /\ items[z].kind = "zone"
         /\ ~are_physically_connected(p, t)
         /\ are_physically_connected(z, p)
         /\ are_physically_connected(z, t)
         /\ GroupOf(p) = GroupOf(t)

\* C3: no two net records have the same name in any state; the names the pass
\* allocated differ from each other and from the names that existed before
\* the pass; the records that existed are kept and each record the pass added
\* has a name no earlier record has.
C3_NetNamesUnique ==
    /\ \A m, n \in 1..Len(nets) : nets[m] = nets[n] => m = n
    /\ \A a, b \in 1..Len(allocated) : allocated[a][2] = allocated[b][2] => a = b
    /\ AllocatedNames \cap Range(nets0) = {}
    /\ Len(nets0) <= Len(nets)
    /\ SubSeq(nets, 1, Len(nets0)) = nets0

\* C3 witness: a pass on a board that had GND and AUTO_1 has named two groups
\* and routed a pad to the existing GND.
C3_Witness ==
    /\ PassDone
    /\ nets0 = << "", "GND", "AUTO_1" >>
    /\ Len(allocated) = 2
    /\ \E i \in Collected0 : GroundNumbered(i) /\ NameOf(i) = "GND"

\* C4: once a pass has completed, a further pass changes no net record and no
\* net reference, allocates no name and reports 0.
C4_SecondRunChangesNothing ==
    ((runs >= 1 /\ pc # "idle") \/ runs >= 2) =>
        /\ nets = nets0
        /\ itemNet = itemNet0
        /\ allocated = << >>
        /\ pc = "resolve" => named_connections = 0
        /\ pc = "idle" => reported = 0

\* C4 witness: the second pass is over; the first created AUTO_1 and GND and
\* the second still collected an unnamed pad.
C4_Witness ==
    /\ runs = 2
    /\ pc = "idle"
    /\ nets = << "", "AUTO_1", "GND" >>
    /\ all_items # << >>

\* C5: the k-th group named in a pass receives AUTO_n for the k-th smallest
\* positive n such that AUTO_n was no net name before the pass; the groups are
\* named in group order and the counter is one more than the last n used.
C5_AllocationOrder ==
    /\ \A a \in 1..Len(allocated) : allocated[a][2] = NetName(KthFree(a))
    /\ \A a, b \in 1..Len(allocated) : a < b => allocated[a][1] < allocated[b][1]
    /\ pc = "resolve" =>
         counter = IF allocated = << >> THEN 1 ELSE KthFree(Len(allocated)) + 1

\* C5 witness: with AUTO_2 on the board, two groups were named AUTO_1 and AUTO_3.
C5_Witness ==
    /\ pc = "resolve"
    /\ "AUTO_2" \in Range(nets0)
    /\ Len(allocated) = 2
    /\ allocated[1][2] = "AUTO_1"
    /\ allocated[2][2] = "AUTO_3"

\* C6 as stated: after a pass every collected pad numbered "0" or "MP"
\* references the net named GND.
C6_EveryGroundPadOnGND ==
    PassDone =>
        \A i \in Collected0 : GroundNumbered(i) => NameOf(i) = "GND"

\* C6 amended: after a pass every collected pad numbered "0" or "MP" whose
\* group contains a track or a zone references the net named GND, and never a
\* net allocated by the pass.
C6_GroundPadWithConductorOnGND ==
    PassDone =>
        \A i \in Collected0 :
            (GroundNumbered(i) /\ ~OnlyPads(GroupOf(i))) =>
                /\ NameOf(i) = "GND"
                /\ NameOf(i) \notin AllocatedNames

\* C6 witness: a pad "0" and an ordinary pad share a group with a conductor;
\* the first is on GND, the second on the allocated net.
C6_Witness ==
    /\ PassDone
    /\ \E i, j \in Collected0 :
         /\ GroundNumbered(i) /\ items[i].number = "0"
         /\ items[j].kind = "pad" /\ items[j].number = "1"
         /\ GroupOf(i) = GroupOf(j)
         /\ NameOf(i) = "GND"
         /\ NameOf(j) \in AllocatedNames

\* C7 as stated: after a pass every collected item references a net with a
\* non-empty name.
C7_EveryCollectedItemNamed ==
    PassDone => \A i \in Collected0 : NameOf(i) # ""

\* C7 amended: after a pass every collected item whose group contains a track
\* or a zone references a net with a non-empty name.
C7_ItemsOfConductorGroupsNamed ==
    PassDone =>
        \A i \in Collected0 : ~OnlyPads(GroupOf(i)) => NameOf(i) # ""

\* C7 witness: a pass named a group of a track, a zone and a pad.
C7_Witness ==
    /\ PassDone
    /\ \E g \in GroupIndexes :
         /\ { items[i].kind : i \in Members(g) } = {"track", "zone", "pad"}
         /\ \A i \in Members(g) : NameOf(i) # ""

\* C8: resolving a group without track and zone creates no net record, changes
\* no net reference and leaves the counter, the used names and the count of
\* named groups unchanged.
C8_PadOnlyGroupSkipped ==
    [][ ( /\ pc = "resolve"
          /\ group_index <= Len(connected_groups)
          /\ OnlyPads(group_index) )
        => UNCHANGED << nets, itemNet, counter, used_net_names, named_connections >>
      ]_vars

\* C8 witness: the group just resolved is a lone pad "MP"; it has no net and
\* the board has no GND.
C8_Witness ==
    /\ pc = "resolve"
    /\ group_index > 1
    /\ Len(connected_groups[group_index - 1]) = 1
    /\ LET i == connected_groups[group_index - 1][1]
       IN  items[i].kind = "pad" /\ items[i].number = "MP" /\ itemNet[i] = 0
    /\ "GND" \notin Range(nets)
    /\ named_connections = 1

\* C9 as stated: the reported number equals the number of net records the
\* pass created.
C9_ReportedEqualsCreatedRecords ==
    PassDone => reported = Len(nets) - Len(nets0)

\* C9 amended: the reported number equals the number of groups the pass
\* named, which is the number of AUTO_n records it created; a GND record the
\* pass created is one more record, not counted.
C9_ReportedEqualsNamedGroups ==
    PassDone =>
        /\ reported = Len(allocated)
        /\ reported = Cardinality({ n \in (Len(nets0) + 1)..Len(nets) : nets[n] # "GND" })
        /\ Len(nets) - Len(nets0) =
             reported + (IF "GND" \in Range(nets) \ Range(nets0) THEN 1 ELSE 0)

\* C9 witness: the pass reported 1 and created two records, AUTO_1 and GND.
C9_Witness ==
    /\ PassDone
    /\ reported = 1
    /\ Len(nets) = Len(nets0) + 2

\* C10: after a pass two collected items, neither a pad numbered "0" or "MP",
\* of groups with a track or zone reference the same net exactly when they are
\* in the same group; the net is the one allocated for the group, a track or
\* zone of the group references it and no item outside the group does.
C10_OneNetPerNamedGroup ==
    PassDone =>
        LET Eligible == { i \in Collected0 :
                            ~GroundNumbered(i) /\ ~OnlyPads(GroupOf(i)) }
        IN  /\ \A i, j \in Eligible :
                 itemNet[i] = itemNet[j] <=> GroupOf(i) = GroupOf(j)
            /\ \A i \in Eligible :
                 /\ << GroupOf(i), NameOf(i) >> \in Range(allocated)
                 /\ \E c \in Members(GroupOf(i)) :
                      items[c].kind \in {"track", "zone"} /\ itemNet[c] = itemNet[i]
                 /\ \A o \in 1..Len(items) :
                      o \notin Members(GroupOf(i)) => itemNet[o] # itemNet[i]

\* C10 witness: two groups were named while a third item kept the AUTO_1 it had.
C10_Witness ==
    /\ PassDone
    /\ Len(allocated) = 2
    /\ \E o \in 1..Len(items) : o \notin Collected0 /\ NameOf(o) = "AUTO_1"
====
